---- MODULE Spec2Model ----
(***************************************************************************)
(* hexedit: patch a copy of a binary file with bytes given as a hex        *)
(* string (src/hexedit.cpp).  One run of main() is modelled as a state     *)
(* machine over the command line, the process memory and the file system.  *)
(* Characters are their ASCII codes, file bytes are 0..255.  The outcome   *)
(* of every system call (stat, open, read, write, utimes) is chosen by     *)
(* the environment; the program sees it through the return value or the    *)
(* stream state it tests.                                                  *)
(***************************************************************************)
EXTENDS Integers, Sequences, FiniteSets, TLC

VARIABLES
    argv,       \* the command line: [argc, flags, pos, hex, src, dst]
    fs,         \* the file system: path -> NoFile or [content, atime, mtime]
    fs0,        \* the file system as it was when the run started
    pc,         \* the step main() is about to take
    pos,        \* long pos                        (line 92)
    hexStr,     \* std::string hexStr: its backing memory and size()  (line 93)
    srcFile,    \* std::string srcFile             (line 100)
    dstFile,    \* std::string dstFile             (line 101)
    st,         \* struct stat st                  (line 104)
    buffer,     \* std::vector<char> buffer        (line 112)
    binData,    \* the decoded-byte vector: parseHexString's result, which
                \* becomes binData on return (lines 52, 127)
    err,        \* which message went to stderr ("none" when none did)
    exitCode,   \* the value main() returned (NoExit while it runs)
    steps,      \* the steps attempted so far, in order
    dstOpened   \* whether the output stream ever opened (created/truncated) dstFile

vars == <<argv, fs, fs0, pc, pos, hexStr, srcFile, dstFile, st, buffer,
          binData, err, exitCode, steps, dstOpened>>

-----------------------------------------------------------------------------
(* Bounds of the model *)

MaxFileLen == 3     \* source files hold at most this many bytes
MaxHexChars == 4    \* -w strings of the patch family have at most this many characters
MaxDigitPair == 2   \* -w strings of the digit family have at most this many characters

(* Program constants *)

MaxHexLen == 1000   \* hexStr.size() > 1000 throws
ExpectedArgc == 9   \* argc != 9 is a usage error

-----------------------------------------------------------------------------
(* Characters and strings *)

Ord == ("0" :> 48) @@ ("1" :> 49) @@ ("2" :> 50) @@ ("3" :> 51) @@ ("4" :> 52) @@
       ("5" :> 53) @@ ("6" :> 54) @@ ("7" :> 55) @@ ("8" :> 56) @@ ("9" :> 57) @@
       ("A" :> 65) @@ ("B" :> 66) @@ ("C" :> 67) @@ ("D" :> 68) @@ ("E" :> 69) @@
       ("F" :> 70) @@ ("G" :> 71) @@
       ("a" :> 97) @@ ("b" :> 98) @@ ("c" :> 99) @@ ("d" :> 100) @@ ("e" :> 101) @@
       ("f" :> 102) @@ ("g" :> 103) @@
       ("/" :> 47) @@ (":" :> 58) @@ ("@" :> 64) @@
       (" " :> 32) @@ ("+" :> 43) @@ ("-" :> 45) @@ ("x" :> 120)

Code(s) == [i \in 1..Len(s) |-> Ord[s[i]]]

SeqsUpTo(S, n) == UNION {[1..k -> S] : k \in 0..n}

Zeros(n) == [i \in 1..n |-> 0]

AllZero(s) == \A i \in 1..Len(s) : s[i] = 0

NoFile == [exists |-> FALSE]
NoStat == [valid |-> FALSE]
NoExit == 0 - 1

-----------------------------------------------------------------------------
(* secureZero (lines 36-41): the first len bytes at ptr become 0 *)

\* the loop stopping one byte early
secureZero_shortByOne(mem, len) == [i \in 1..Len(mem) |-> IF i < len THEN 0 ELSE mem[i]]

secureZero(mem, len) == [i \in 1..Len(mem) |-> IF i <= len THEN 0 ELSE mem[i]]

-----------------------------------------------------------------------------
(* parseHexString (lines 46-69) *)

Invalid == 0 - 1    \* hexVal throws

\* the letters a-f taken without the + 10
hexVal_lowerNoOffset(c) ==
    IF c >= Ord["0"] /\ c <= Ord["9"] THEN c - Ord["0"]
    ELSE IF c >= Ord["A"] /\ c <= Ord["F"] THEN c - Ord["A"] + 10
    ELSE IF c >= Ord["a"] /\ c <= Ord["f"] THEN c - Ord["a"]
    ELSE Invalid

hexVal(c) ==
    IF c >= Ord["0"] /\ c <= Ord["9"] THEN c - Ord["0"]
    ELSE IF c >= Ord["A"] /\ c <= Ord["F"] THEN c - Ord["A"] + 10
    ELSE IF c >= Ord["a"] /\ c <= Ord["f"] THEN c - Ord["a"] + 10
    ELSE Invalid

\* The loop of lines 62-67 stops at the first digit pair with a character
\* hexVal throws on (it runs over the whole string when there is none).
\* The bytes pushed before a throw stay in result's storage, which the
\* unwinding releases as it is.
pairThrows(hexStr_, k) ==
    hexVal(hexStr_[2 * k - 1]) = Invalid \/ hexVal(hexStr_[2 * k]) = Invalid

byteVal(hexStr_, k) == (hexVal(hexStr_[2 * k - 1]) * 16 + hexVal(hexStr_[2 * k])) % 256

parseHexString(hexStr_) ==
    IF Len(hexStr_) % 2 # 0
    THEN [threw |-> "HexOddLength", result |-> <<>>]
    ELSE LET throwing == {k \in 1..(Len(hexStr_) \div 2) : pairThrows(hexStr_, k)}
             pushed == IF throwing = {}
                       THEN Len(hexStr_) \div 2
                       ELSE (CHOOSE k \in throwing : \A j \in throwing : k <= j) - 1
         IN  [threw |-> IF throwing = {} THEN "none" ELSE "InvalidHexCharacter",
              result |-> [k \in 1..pushed |-> byteVal(hexStr_, k)]]

-----------------------------------------------------------------------------
(* std::strtol(argv[2], nullptr, 10) (line 92): white space is skipped, an *)
(* optional sign is read, then decimal digits up to the first character    *)
(* that is not one; no digits at all gives 0.  The -pos strings of the     *)
(* model are far too short to leave the range of long.                     *)

isspace(c) == c = 32 \/ (c >= 9 /\ c <= 13)

isdigit(c) == c >= Ord["0"] /\ c <= Ord["9"]

RECURSIVE skipSpace(_, _)
skipSpace(s, i) == IF i <= Len(s) /\ isspace(s[i]) THEN skipSpace(s, i + 1) ELSE i

RECURSIVE accumulate(_, _, _)
accumulate(s, i, acc) ==
    IF i <= Len(s) /\ isdigit(s[i])
    THEN accumulate(s, i + 1, acc * 10 + (s[i] - Ord["0"]))
    ELSE acc

\* no white space skipped before the number
strtol_noSkipSpace(nptr) ==
    LET signed == 1 <= Len(nptr) /\ nptr[1] \in {Ord["+"], Ord["-"]}
        neg == signed /\ nptr[1] = Ord["-"]
        acc == accumulate(nptr, IF signed THEN 2 ELSE 1, 0)
    IN  IF neg THEN 0 - acc ELSE acc

strtol(nptr) ==
    LET i == skipSpace(nptr, 1)
        signed == i <= Len(nptr) /\ nptr[i] \in {Ord["+"], Ord["-"]}
        neg == signed /\ nptr[i] = Ord["-"]
        acc == accumulate(nptr, IF signed THEN i + 1 ELSE i, 0)
    IN  IF neg THEN 0 - acc ELSE acc

-----------------------------------------------------------------------------
(* The overwrite of lines 134-140 *)

RECURSIVE overwriteLoop(_, _, _, _, _)
overwriteLoop(buf, pos_, bin, fileSize, i) ==
    IF i >= Len(bin) THEN buf
    ELSE LET dstPos == pos_ + i IN
         IF dstPos >= fileSize THEN buf
         ELSE overwriteLoop([buf EXCEPT ![dstPos + 1] = bin[i + 1]],
                            pos_, bin, fileSize, i + 1)

\* offset 0 refused
overwriteBuffer_skipsOffsetZero(buf, pos_, bin, fileSize) ==
    IF pos_ > 0 /\ pos_ < fileSize
    THEN overwriteLoop(buf, pos_, bin, fileSize, 0)
    ELSE buf

\* the test pos >= 0 left out: the bytes of the payload that land at
\* index 0 and after are written
overwriteBuffer_noLowerBound(buf, pos_, bin, fileSize) ==
    IF pos_ < fileSize
    THEN overwriteLoop(buf, pos_, bin, fileSize, 0)
    ELSE buf

overwriteBuffer(buf, pos_, bin, fileSize) ==
    IF pos_ >= 0 /\ pos_ < fileSize
    THEN overwriteLoop(buf, pos_, bin, fileSize, 0)
    ELSE buf

-----------------------------------------------------------------------------
(* Time stamps (lines 164-168): struct timespec -> struct timeval *)

\* the sub-second part dropped
toTimeval_secondsOnly(ts) == [tv_sec |-> ts.tv_sec, tv_usec |-> 0]

toTimeval(ts) == [tv_sec |-> ts.tv_sec, tv_usec |-> ts.tv_nsec \div 1000]

\* what utimes() stores in the inode for a struct timeval
fromTimeval(tv) == [tv_sec |-> tv.tv_sec, tv_nsec |-> tv.tv_usec * 1000]

\* the clock of the run: later than every time stamp a file starts with
Now == [tv_sec |-> 900, tv_nsec |-> 123456789]

-----------------------------------------------------------------------------
(* The command lines and file systems a run may start from *)

GoodFlags == <<"-pos", "-w", "-r", "-o">>

BadFlagVectors ==
    { <<"-p", "-w", "-r", "-o">>,   <<"-pos", "-x", "-r", "-o">>,
      <<"-pos", "-w", "-i", "-o">>, <<"-pos", "-w", "-r", "-out">>,
      <<"-w", "-pos", "-r", "-o">>, <<"-pos", "-w", "-o", "-r">> }

BadArgCounts == {1, ExpectedArgc - 2, ExpectedArgc - 1, ExpectedArgc + 1, ExpectedArgc + 2}

PosArgs ==
    { Code(<<"0">>), Code(<<"1">>), Code(<<"2">>), Code(<<"3">>), Code(<<"-", "1">>),
      Code(<<"x">>), Code(<<"2", "x">>) }

MorePosArgs ==
    { Code(<<>>), Code(<<"-">>), Code(<<" ", "1">>), Code(<<"+", "1">>),
      Code(<<"1", " ">>), Code(<<"-", "x", "1">>), Code(<<"1", "2">>),
      Code(<<"0", "1", "x", "2">>), Code(<<"-", "2", "x">>) }

PatchHexChars == {Ord["1"], Ord["F"], Ord["G"]}

DigitHexChars ==
    { Ord["0"], Ord["5"], Ord["9"], Ord["A"], Ord["C"], Ord["F"], Ord["a"], Ord["c"],
      Ord["f"], Ord["/"], Ord[":"], Ord["@"], Ord["G"], Ord["g"] }

PatchHexArgs == SeqsUpTo(PatchHexChars, MaxHexChars)

DigitHexArgs == SeqsUpTo(DigitHexChars, MaxDigitPair)

LongHexArgs ==
    { [i \in 1..n |-> Ord["1"]] : n \in {MaxHexLen, MaxHexLen + 1, MaxHexLen + 2} }

Contents == SeqsUpTo({0, 165}, MaxFileLen)

DefaultContent == <<1, 2, 3>>

DefaultTimes ==
    [atime |-> [tv_sec |-> 100, tv_nsec |-> 1999], mtime |-> [tv_sec |-> 50, tv_nsec |-> 999999999]]

SrcTimes ==
    { DefaultTimes,
      [atime |-> [tv_sec |-> 7, tv_nsec |-> 0], mtime |-> [tv_sec |-> 7, tv_nsec |-> 1000]],
      [atime |-> [tv_sec |-> 60, tv_nsec |-> 999], mtime |-> [tv_sec |-> 30, tv_nsec |-> 500000001]] }

File(content, times) ==
    [exists |-> TRUE, content |-> content, atime |-> times.atime, mtime |-> times.mtime]

\* "a" is the source; "b" is another path, with or without a file at it
MkFs(content, times, bExists) ==
    [p \in {"a", "b"} |->
        IF p = "a" THEN File(content, times)
        ELSE IF bExists
             THEN File(<<9, 9, 9, 9, 9>>,
                       [atime |-> [tv_sec |-> 1, tv_nsec |-> 1], mtime |-> [tv_sec |-> 2, tv_nsec |-> 2]])
             ELSE NoFile]

Args(argc, flags, p, h, d) ==
    [argc |-> argc, flags |-> flags, pos |-> p, hex |-> h, src |-> "a", dst |-> d]

DefaultArgs == Args(ExpectedArgc, GoodFlags, Code(<<"1">>), Code(<<"F", "1">>), "b")

\* every offset, payload and source content, to the source path and to another
PatchRuns ==
    { <<Args(ExpectedArgc, GoodFlags, p, h, d), MkFs(c, DefaultTimes, FALSE)>> :
        p \in PosArgs, h \in PatchHexArgs, d \in {"a", "b"}, c \in Contents }

\* hex digits of every kind, and payloads at and over the length limit
HexRuns ==
    { <<Args(ExpectedArgc, GoodFlags, Code(<<"0">>), h, "b"), MkFs(DefaultContent, DefaultTimes, FALSE)>> :
        h \in DigitHexArgs \cup LongHexArgs }

\* wrong argument counts, wrong flags, more -pos values, other time stamps
OtherRuns ==
    { <<a, MkFs(DefaultContent, t, b)>> :
        a \in { [DefaultArgs EXCEPT !.argc = n] : n \in BadArgCounts }
              \cup { [DefaultArgs EXCEPT !.flags = f] : f \in BadFlagVectors }
              \cup { [DefaultArgs EXCEPT !.pos = p] : p \in MorePosArgs }
              \cup { [DefaultArgs EXCEPT !.dst = d] : d \in {"a", "b"} }
              \cup { [DefaultArgs EXCEPT !.hex = h] :
                        h \in {Code(<<"F">>), Code(<<"F", "1", "G", "1">>)} },
        t \in SrcTimes, b \in BOOLEAN }

Init ==
    /\ \E run \in PatchRuns \cup HexRuns \cup OtherRuns :
          /\ argv = run[1]
          /\ fs = run[2]
          /\ fs0 = run[2]
    /\ pc = "ParseArgs"
    /\ pos = 0
    /\ hexStr = [data |-> <<>>, size |-> 0]
    /\ srcFile = ""
    /\ dstFile = ""
    /\ st = NoStat
    /\ buffer = <<>>
    /\ binData = [data |-> <<>>, size |-> 0]
    /\ err = "none"
    /\ exitCode = NoExit
    /\ steps = <<>>
    /\ dstOpened = FALSE

-----------------------------------------------------------------------------
(* main (lines 71-184) *)

\* an error message on stderr and return 1 (or the catch of lines 180-183)
Fail(msg) ==
    /\ err' = msg
    /\ exitCode' = 1
    /\ pc' = "Failed"

Goto(step) ==
    /\ pc' = step
    /\ UNCHANGED <<err, exitCode>>

\* the last flag not looked at
FlagsInOrder_firstThree(flags) ==
    /\ flags[1] = "-pos"
    /\ flags[2] = "-w"
    /\ flags[3] = "-r"

FlagsInOrder(flags) ==
    /\ flags[1] = "-pos"
    /\ flags[2] = "-w"
    /\ flags[3] = "-r"
    /\ flags[4] = "-o"

\* the length limit not enforced
hexTooLong_never(h) == FALSE

hexTooLong(h) == Len(h) > MaxHexLen

\* lines 74-101: the argument count, the flags, the offset, the payload
\* length and the two paths
ParseArgs ==
    /\ pc = "ParseArgs"
    /\ steps' = Append(steps, "ParseArgs")
    /\ UNCHANGED <<argv, fs, fs0, st, buffer, binData, dstOpened>>
    /\ \/ /\ argv.argc # ExpectedArgc
          /\ Fail("Usage")
          /\ UNCHANGED <<pos, hexStr, srcFile, dstFile>>
       \/ /\ argv.argc = ExpectedArgc
          /\ ~FlagsInOrder(argv.flags)
          /\ Fail("InvalidParameterOrder")
          /\ UNCHANGED <<pos, hexStr, srcFile, dstFile>>
       \/ /\ argv.argc = ExpectedArgc
          /\ FlagsInOrder(argv.flags)
          /\ pos' = strtol(argv.pos)
          /\ hexStr' = [data |-> argv.hex, size |-> Len(argv.hex)]
          /\ \/ /\ hexTooLong(argv.hex)
                /\ Fail("HexTooLong")
                /\ UNCHANGED <<srcFile, dstFile>>
             \/ /\ ~hexTooLong(argv.hex)
                /\ srcFile' = argv.src
                /\ dstFile' = argv.dst
                /\ Goto("ReadSource")

\* lines 103-124: stat, then the whole file into buffer.  A failed open or
\* read leaves buffer as it was constructed (fileSize zero bytes).
ReadSource ==
    /\ pc = "ReadSource"
    /\ steps' = Append(steps, "ReadSource")
    /\ UNCHANGED <<argv, fs0, pos, hexStr, srcFile, dstFile, binData, dstOpened>>
    /\ \/ /\ Fail("StatFailed")
          /\ UNCHANGED <<fs, st, buffer>>
       \/ /\ fs[srcFile].exists
          /\ st' = [valid |-> TRUE,
                    st_size |-> Len(fs[srcFile].content),
                    st_atimespec |-> fs[srcFile].atime,
                    st_mtimespec |-> fs[srcFile].mtime]
          /\ \/ /\ Fail("OpenFailed")
                /\ buffer' = Zeros(st'.st_size)
                /\ UNCHANGED fs
             \/ /\ Fail("ReadFailed")
                /\ buffer' = Zeros(st'.st_size)
                /\ UNCHANGED fs
             \/ /\ buffer' = fs[srcFile].content
                /\ fs' = [fs EXCEPT ![srcFile].atime = Now]
                /\ Goto("DecodePayload")

\* lines 127-131: decode, then wipe the hex string
DecodePayload ==
    /\ pc = "DecodePayload"
    /\ steps' = Append(steps, "DecodePayload")
    /\ UNCHANGED <<argv, fs, fs0, pos, srcFile, dstFile, st, buffer, dstOpened>>
    /\ LET r == parseHexString(hexStr.data) IN
         /\ binData' = [data |-> r.result, size |-> Len(r.result)]
         /\ IF r.threw # "none"
            THEN /\ Fail(r.threw)
                 /\ UNCHANGED hexStr
            ELSE /\ hexStr' = [data |-> secureZero(hexStr.data, hexStr.size), size |-> 0]
                 /\ Goto("ApplyPatch")

\* lines 134-146: overwrite, then wipe the decoded bytes
ApplyPatch ==
    /\ pc = "ApplyPatch"
    /\ steps' = Append(steps, "ApplyPatch")
    /\ UNCHANGED <<argv, fs, fs0, pos, hexStr, srcFile, dstFile, st, dstOpened>>
    /\ buffer' = overwriteBuffer(buffer, pos, binData.data, st.st_size)
    /\ binData' = IF binData.size # 0
                  THEN [data |-> secureZero(binData.data, binData.size), size |-> 0]
                  ELSE binData
    /\ Goto("WriteDestination")

\* the file at path after the output stream wrote content to it
Written(path, content) ==
    [exists |-> TRUE, content |-> content,
     atime |-> IF fs[path].exists THEN fs[path].atime ELSE Now,
     mtime |-> Now]

\* lines 150-160: create or truncate dstFile, write fileSize bytes of buffer.
\* A failed write leaves some shorter prefix in the file.
WriteDestination ==
    /\ pc = "WriteDestination"
    /\ steps' = Append(steps, "WriteDestination")
    /\ UNCHANGED <<argv, fs0, pos, hexStr, srcFile, dstFile, st, buffer, binData>>
    /\ \/ /\ Fail("CreateFailed")
          /\ UNCHANGED <<fs, dstOpened>>
       \/ /\ dstOpened' = TRUE
          /\ \/ /\ \E n \in 0..(IF st.st_size = 0 THEN 0 ELSE st.st_size - 1) :
                      fs' = [fs EXCEPT ![dstFile] = Written(dstFile, SubSeq(buffer, 1, n))]
                /\ Fail("WriteFailed")
             \/ /\ fs' = [fs EXCEPT ![dstFile] = Written(dstFile, SubSeq(buffer, 1, st.st_size))]
                /\ Goto("CopyTimestamps")

\* lines 164-178: the source's time stamps onto dstFile, then return 0
CopyTimestamps ==
    /\ pc = "CopyTimestamps"
    /\ steps' = Append(steps, "CopyTimestamps")
    /\ UNCHANGED <<argv, fs0, pos, hexStr, srcFile, dstFile, st, buffer, binData, dstOpened>>
    /\ LET times == <<toTimeval(st.st_atimespec), toTimeval(st.st_mtimespec)>> IN
         \/ /\ Fail("UtimesFailed")
            /\ UNCHANGED fs
         \/ /\ fs' = [fs EXCEPT ![dstFile].atime = fromTimeval(times[1]),
                                ![dstFile].mtime = fromTimeval(times[2])]
            /\ err' = "none"
            /\ exitCode' = 0
            /\ pc' = "Success"

Next ==
    \/ ParseArgs
    \/ ReadSource
    \/ DecodePayload
    \/ ApplyPatch
    \/ WriteDestination
    \/ CopyTimestamps

Spec == Init /\ [][Next]_vars

-----------------------------------------------------------------------------
(* What the properties are stated with: hex digits, offsets and files as   *)
(* the documentation describes them, independently of the code above       *)

DigitValue ==
    (Ord["0"] :> 0) @@ (Ord["1"] :> 1) @@ (Ord["2"] :> 2) @@ (Ord["3"] :> 3) @@
    (Ord["4"] :> 4) @@ (Ord["5"] :> 5) @@ (Ord["6"] :> 6) @@ (Ord["7"] :> 7) @@
    (Ord["8"] :> 8) @@ (Ord["9"] :> 9) @@
    (Ord["a"] :> 10) @@ (Ord["b"] :> 11) @@ (Ord["c"] :> 12) @@ (Ord["d"] :> 13) @@
    (Ord["e"] :> 14) @@ (Ord["f"] :> 15) @@
    (Ord["A"] :> 10) @@ (Ord["B"] :> 11) @@ (Ord["C"] :> 12) @@ (Ord["D"] :> 13) @@
    (Ord["E"] :> 14) @@ (Ord["F"] :> 15)

OddLength(h) == Len(h) % 2 = 1
OverLength(h) == Len(h) > 1000
HasNonHexChar(h) == \E i \in 1..Len(h) : h[i] \notin DOMAIN DigitValue
ValidHex(h) == ~OddLength(h) /\ ~OverLength(h) /\ ~HasNonHexChar(h)

\* the bytes a valid payload stands for
Decoded(h) == [j \in 1..(Len(h) \div 2) |-> 16 * DigitValue[h[2 * j - 1]] + DigitValue[h[2 * j]]]

\* four flag/value pairs, named and ordered -pos, -w, -r, -o
WellFormedCommandLine ==
    /\ argv.argc = 1 + 2 * 4
    /\ argv.flags = <<"-pos", "-w", "-r", "-o">>

Terminated == pc \in {"Success", "Failed"}

UsageErrors == {"Usage", "InvalidParameterOrder"}
FormatErrors == {"HexTooLong", "HexOddLength", "InvalidHexCharacter"}
SourceErrors == {"StatFailed", "OpenFailed", "ReadFailed"}
DestinationErrors == {"CreateFailed", "WriteFailed"}

SourceContent == fs0[argv.src].content
SourceSize == Len(SourceContent)

\* no path has been created, truncated or written
NothingWritten ==
    \A p \in DOMAIN fs :
        /\ fs[p].exists = fs0[p].exists
        /\ fs[p].exists => fs[p].content = fs0[p].content

Attempted(step) == \E i \in 1..Len(steps) : steps[i] = step

LastStep == steps[Len(steps)]

Min(a, b) == IF a < b THEN a ELSE b

-----------------------------------------------------------------------------
\* C1: a successful run with 0 <= offset < N writes a destination of exactly
\* N bytes: byte i is payload byte i - offset for offset <= i < min(offset + k, N)
\* and source byte i elsewhere; payload bytes past the end are dropped.
C1_PatchedCopy ==
    (pc = "Success" /\ pos >= 0 /\ pos < SourceSize) =>
        LET p == Decoded(argv.hex)
            dest == fs[argv.dst]
        IN  /\ dest.exists
            /\ Len(dest.content) = SourceSize
            /\ \A i \in 0..(SourceSize - 1) :
                  dest.content[i + 1] =
                      IF pos <= i /\ i < Min(pos + Len(p), SourceSize)
                      THEN p[i - pos + 1]
                      ELSE SourceContent[i + 1]

\* a successful patch in the middle of the file whose payload runs past the end
C1_Witness ==
    /\ pc = "Success"
    /\ pos > 0
    /\ pos < SourceSize
    /\ pos + Len(Decoded(argv.hex)) > SourceSize
    /\ fs[argv.dst].content # SourceContent

\* C2: with a valid payload and an offset < 0 or >= file size (any offset on
\* an empty file) the run is no error: unless a system call on the source or
\* the destination fails, it exits 0, and the destination equals the source.
C2_OutOfRangeCopies ==
    (Terminated /\ WellFormedCommandLine /\ ValidHex(argv.hex)
        /\ (pos < 0 \/ pos >= SourceSize)) =>
            \/ /\ err \in SourceErrors \cup DestinationErrors \cup {"UtimesFailed"}
               /\ exitCode = 1
            \/ /\ err = "none"
               /\ pc = "Success"
               /\ exitCode = 0
               /\ fs[argv.dst].exists
               /\ fs[argv.dst].content = SourceContent

\* a negative offset with a payload of two bytes on a file that has bytes
C2_Witness ==
    /\ pc = "Success"
    /\ pos < 0
    /\ SourceSize > 0
    /\ Len(argv.hex) >= 4
    /\ fs[argv.dst].content = SourceContent

\* C3: decoding fails exactly when the payload has odd length, more than 1000
\* characters or a character outside [0-9a-fA-F]; otherwise it returns
\* length/2 bytes, byte j = 16 * value(char 2j) + value(char 2j+1).
C3_DecodeExact ==
    /\ pc \in {"ApplyPatch", "WriteDestination", "CopyTimestamps", "Success"} => ValidHex(argv.hex)
    /\ err \in FormatErrors => ~ValidHex(argv.hex)
    /\ (Terminated /\ Attempted("DecodePayload") /\ ~ValidHex(argv.hex)) => err \in FormatErrors
    /\ (WellFormedCommandLine /\ Attempted("ParseArgs") /\ OverLength(argv.hex)) => err \in FormatErrors
    /\ pc = "ApplyPatch" =>
          /\ binData.data = Decoded(argv.hex)
          /\ binData.size = Len(argv.hex) \div 2

\* the payload "aF" decoded to the byte 0xAF
C3_Witness ==
    /\ pc = "ApplyPatch"
    /\ argv.hex = Code(<<"a", "F">>)
    /\ binData.data = <<175>>

\* C4: a run that fails with a usage error, a hex format error or a source
\* stat/open/read error exits 1 and never creates, truncates or writes the
\* destination.
C4_ErrorsWriteNothing ==
    /\ (~WellFormedCommandLine \/ ~ValidHex(argv.hex)) =>
          /\ ~dstOpened
          /\ NothingWritten
          /\ pc # "Success"
          /\ Terminated => exitCode = 1
    /\ err \in UsageErrors \cup FormatErrors \cup SourceErrors =>
          /\ exitCode = 1
          /\ ~dstOpened
          /\ NothingWritten

\* an invalid character met after the source was read, the destination
\* path still without a file
C4_Witness ==
    /\ pc = "Failed"
    /\ err = "InvalidHexCharacter"
    /\ st # NoStat
    /\ ~fs0[argv.dst].exists
    /\ ~fs[argv.dst].exists

\* C5: the content of the file at the source path is the same after the run
\* as before it, whatever the two paths are and however the run ends.
C5_SourceNeverMutated ==
    WellFormedCommandLine =>
        /\ fs[argv.src].exists
        /\ fs[argv.src].content = SourceContent

\* sub-second part rounded down to the microsecond
RoundedDown(ts) == [tv_sec |-> ts.tv_sec, tv_nsec |-> ts.tv_nsec - (ts.tv_nsec % 1000)]

\* C6: the time stamps are set only after the destination has been written
\* in full, and to the access and modification times the source had before
\* any read or write; after exit 0 the destination carries them, rounded
\* down to the microsecond.
C6_TimestampsAfterWrite ==
    /\ Attempted("CopyTimestamps") =>
          /\ err \notin DestinationErrors
          /\ fs[argv.dst].exists
          /\ fs[argv.dst].content = buffer
          /\ Len(buffer) = SourceSize
    /\ ~Attempted("CopyTimestamps") =>
          \A p \in DOMAIN fs : fs[p].exists =>
              /\ fs[p].atime = Now \/ (fs0[p].exists /\ fs[p].atime = fs0[p].atime)
              /\ fs[p].mtime = Now \/ (fs0[p].exists /\ fs[p].mtime = fs0[p].mtime)
    /\ exitCode = 0 =>
          /\ fs[argv.dst].atime = RoundedDown(fs0[argv.src].atime)
          /\ fs[argv.dst].mtime = RoundedDown(fs0[argv.src].mtime)

\* exit 0 writing over the source itself, whose time stamps are not whole
\* microseconds
C6_Witness ==
    /\ exitCode = 0
    /\ argv.dst = argv.src
    /\ fs0[argv.src].atime.tv_nsec % 1000 # 0
    /\ fs[argv.dst].atime # fs0[argv.src].atime
    /\ fs[argv.dst].mtime.tv_sec = fs0[argv.src].mtime.tv_sec

StepOrder ==
    <<"ParseArgs", "ReadSource", "DecodePayload", "ApplyPatch", "WriteDestination",
      "CopyTimestamps">>

\* each step at most once, in order, only after the ones before it
\* succeeded; a failure ends the run with exit 1 in the step stepOf gives
\* for its message; exit 0 exactly when CopyTimestamps succeeded
RunsInOrder(stepOf(_)) ==
    /\ Len(steps) <= Len(StepOrder)
    /\ steps = SubSeq(StepOrder, 1, Len(steps))
    /\ ~Terminated => /\ pc = StepOrder[Len(steps) + 1]
                      /\ err = "none"
                      /\ exitCode = NoExit
    /\ pc = "Failed" => /\ exitCode = 1
                        /\ err # "none"
                        /\ LastStep = stepOf(err)
    /\ pc = "Success" => /\ exitCode = 0
                         /\ err = "none"
                         /\ steps = StepOrder
    /\ exitCode = 0 <=> pc = "Success"
    /\ (Terminated /\ Attempted("CopyTimestamps") /\ err # "UtimesFailed") => exitCode = 0

StepOfError(e) ==
    IF e \in UsageErrors THEN "ParseArgs"
    ELSE IF e \in SourceErrors THEN "ReadSource"
    ELSE IF e \in FormatErrors THEN "DecodePayload"
    ELSE IF e \in DestinationErrors THEN "WriteDestination"
    ELSE "CopyTimestamps"

StepOfErrorInCode(e) == IF e = "HexTooLong" THEN "ParseArgs" ELSE StepOfError(e)

\* C7 as stated: the steps run in order, the first failure ends the run, and
\* every payload failure comes from DecodePayload, after the source was read.
C7_AsStated ==
    /\ RunsInOrder(StepOfError)
    /\ err \in FormatErrors => Attempted("ReadSource") /\ st # NoStat

\* C7, amended: the same, but a payload of more than 1000 characters fails in
\* ParseArgs, before the source is looked at; odd length and invalid
\* characters fail in DecodePayload, after the source was read.
C7_StepsInOrder ==
    /\ RunsInOrder(StepOfErrorInCode)
    /\ err \in {"HexOddLength", "InvalidHexCharacter"} => Attempted("ReadSource") /\ st # NoStat
    /\ (WellFormedCommandLine /\ OverLength(argv.hex) /\ Attempted("ParseArgs")) =>
          /\ err = "HexTooLong"
          /\ steps = <<"ParseArgs">>
          /\ st = NoStat

\* an over-long payload refused before the source was read
C7_Witness ==
    /\ pc = "Failed"
    /\ err = "HexTooLong"
    /\ steps = <<"ParseArgs">>
    /\ st = NoStat

PatchReached == pc \in {"ApplyPatch", "WriteDestination", "CopyTimestamps", "Success"}
                \/ (pc = "Failed" /\ Attempted("ApplyPatch"))

WriteReached == pc \in {"WriteDestination", "CopyTimestamps", "Success"}
                \/ (pc = "Failed" /\ Attempted("WriteDestination"))

\* C8: once decoding has succeeded every byte of the hex string buffer is
\* zero before the patch is applied, and every byte of the decoded buffer is
\* zero before the destination is opened; both stay so to the end of the run.
C8_WipedAfterDecode ==
    /\ PatchReached => /\ Len(hexStr.data) = Len(argv.hex)
                       /\ AllZero(hexStr.data)
    /\ WriteReached => /\ Len(binData.data) = Len(argv.hex) \div 2
                       /\ AllZero(binData.data)
    /\ pc = "WriteDestination" => ~dstOpened /\ NothingWritten

\* a failed write of the destination with a two-byte payload wiped
C8_Witness ==
    /\ pc = "Failed"
    /\ err = "WriteFailed"
    /\ Len(binData.data) >= 2
    /\ AllZero(binData.data)
    /\ Len(hexStr.data) >= 4
    /\ AllZero(hexStr.data)

SpaceChars == {32, 9, 10, 11, 12, 13}
SignChars == {Ord["+"], Ord["-"]}
DecimalDigits == {c \in DOMAIN DigitValue : DigitValue[c] < 10 /\ c < Ord["A"]}

\* s is white space, an optional sign and one or more decimal digits
IsBase10Integer(s) ==
    \E a \in 0..Len(s) : \E b \in {a, a + 1} :
        /\ b < Len(s)
        /\ \A i \in 1..a : s[i] \in SpaceChars
        /\ b = a + 1 => s[b] \in SignChars
        /\ \A i \in (b + 1)..Len(s) : s[i] \in DecimalDigits

RECURSIVE DigitsValue(_, _)
DigitsValue(s, n) ==
    IF n = 0 THEN 0
    ELSE IF s[n] \in DecimalDigits THEN DigitsValue(s, n - 1) * 10 + DigitValue[s[n]]
    ELSE DigitsValue(s, n - 1)

IntegerValue(s) ==
    IF \E i \in 1..Len(s) : s[i] = Ord["-"] THEN 0 - DigitsValue(s, Len(s)) ELSE DigitsValue(s, Len(s))

\* the lengths of the prefixes of s that are base-10 integers
IntegerPrefixes(s) == {n \in 1..Len(s) : IsBase10Integer(SubSeq(s, 1, n))}

LongestIntegerPrefix(s) ==
    SubSeq(s, 1, CHOOSE n \in IntegerPrefixes(s) : \A m \in IntegerPrefixes(s) : m <= n)

PatchedAtByteZero ==
    (pc = "Success" /\ SourceSize > 0 /\ Len(argv.hex) >= 2) =>
        fs[argv.dst].content[1] = Decoded(argv.hex)[1]

\* C9 as stated: a -pos value that is not a base-10 integer is no error and
\* gives offset 0, so a successful run patches from byte 0.
C9_AsStated ==
    (WellFormedCommandLine /\ Attempted("ParseArgs") /\ ~IsBase10Integer(argv.pos)) =>
        /\ err \notin UsageErrors
        /\ pos = 0
        /\ PatchedAtByteZero

\* C9, amended: no -pos value is an error.  One that does not start with a
\* base-10 integer gives offset 0, so a successful run patches from byte 0;
\* one that starts with an integer followed by other characters gives that
\* integer.
C9_PosNeverFails ==
    (WellFormedCommandLine /\ Attempted("ParseArgs")) =>
        /\ err \notin UsageErrors
        /\ IntegerPrefixes(argv.pos) = {} => pos = 0 /\ PatchedAtByteZero
        /\ IntegerPrefixes(argv.pos) # {} => pos = IntegerValue(LongestIntegerPrefix(argv.pos))

\* -pos x on a file with bytes: exit 0, the first byte replaced
C9_Witness ==
    /\ pc = "Success"
    /\ argv.pos = Code(<<"x">>)
    /\ pos = 0
    /\ SourceSize > 0
    /\ Len(argv.hex) >= 2
    /\ fs[argv.dst].content[1] # SourceContent[1]

\* C10: however the run ends after the payload was copied into the hex
\* string buffer, that buffer and the decoded-byte buffer hold only zeros
\* when they are released.
C10_WipedOnEveryPath ==
    (Terminated /\ WellFormedCommandLine) =>
        /\ AllZero(hexStr.data)
        /\ AllZero(binData.data)

====
